---------------------------- MODULE Spec2Model ----------------------------
(***************************************************************************)
(* The task processing pipeline of a2a-multiagent-server (main.go,         *)
(* trtc_api.go): streamingTaskProcessor.Process and everything it calls.   *)
(*                                                                         *)
(* A Go string is a sequence of tokens.  Text that comes from outside (the *)
(* user's text, model output) has one token per byte, so len() is Len and  *)
(* strings.TrimSpace works on bytes; a string literal of the program is a  *)
(* single token.  A *T that may be nil is a sequence of length 0 or 1.     *)
(* Every call the pipeline makes on a collaborator (TaskHandle, the model  *)
(* client, the stream, the voice backend) is appended to log, in order,    *)
(* with its arguments and its result.                                      *)
(***************************************************************************)
EXTENDS Integers, Sequences, FiniteSets, TLC

VARIABLES
    pc,           \* position of Process: idle, classify, voice, complete, open, check, recv, done, panicked
    taskID,       \* Process argument
    message,      \* Process argument: the sequence of parts
    isStreaming,  \* handle.IsStreamingRequest()
    text,         \* main.go:45
    intent,       \* main.go:389, detectIntent's local
    ctxErr,       \* ctx.Err() != nil
    chunkIndex,   \* main.go:127
    fullResponse, \* main.go:128, fullResponse.Len()
    recvCount,    \* number of stream.Recv calls of this run
    log,          \* the calls made on the collaborators, in order
    ret,          \* what Process returned: <<>> is nil, <<e>> the error e
    trtcClientOnce, \* trtc_api.go:19, TRUE once Do has run
    trtcClient      \* trtc_api.go:18

vars == <<pc, taskID, message, isStreaming, text, intent, ctxErr, chunkIndex,
          fullResponse, recvCount, log, ret, trtcClientOnce, trtcClient>>

-----------------------------------------------------------------------------
(* Bounds *)

\* responses a stream delivers in one run before it ends with io.EOF or an
\* error
MaxRecv == 2
\* TaskHandle calls that may fail in one run
MaxHandleFailures == 1

-----------------------------------------------------------------------------
(* Strings and errors *)

Whitespace == {" ", "\t", "\n"}

RECURSIVE TrimLeft(_)
TrimLeft(s) ==
    IF s # <<>> /\ Head(s) \in Whitespace THEN TrimLeft(Tail(s)) ELSE s

RECURSIVE TrimRight(_)
TrimRight(s) ==
    IF s # <<>> /\ s[Len(s)] \in Whitespace
    THEN TrimRight(SubSeq(s, 1, Len(s) - 1))
    ELSE s

\* strings.TrimSpace
TrimSpace(s) == TrimRight(TrimLeft(s))

\* fmt.Errorf(prefix + ": %w", err) and fmt.Sprintf(prefix + "%v", err)
Errorf(prefix, err) == <<prefix>> \o err

\* fmt.Errorf(errMsg)
NewError(errMsg) == <<errMsg>>

ErrTransport == <<"connection reset">>
ErrCanceled  == <<"context canceled">>
EOF          == <<"EOF">>

\* the errors a call that takes ctx can return
CallErrors == {ErrTransport} \cup (IF ctxErr THEN {ErrCanceled} ELSE {})

XiaoMei   == <<"X", "i", "a", "o", "M", "e", "i">>
XiaoShuai == <<"X", "i", "a", "o", "S", "h", "u", "a", "i">>

-----------------------------------------------------------------------------
(* Inputs *)

TextPart(t) == [kind |-> "text", text |-> t]
FilePart    == [kind |-> "file", text |-> <<>>]

Hello == <<"h", "i">>

Messages ==
    { <<>>,
      <<FilePart>>,
      <<TextPart(<<>>)>>,
      <<TextPart(<<>>), TextPart(Hello)>>,
      <<FilePart, TextPart(Hello), TextPart(<<"y">>)>> }

\* a task id is a string of n bytes
TaskIDLens == {10, 64, 65}
TaskIDs == { [i \in 1..n |-> "t"] : n \in TaskIDLens }

\* resp.Choices[0].Message.Content of the classification response
ClassifierOutputs ==
    { XiaoMei,
      XiaoShuai,
      <<" ">> \o XiaoMei \o <<"\n">>,
      <<"\t">> \o XiaoShuai \o <<" ", " ">>,
      <<"x", "i", "a", "o", "m", "e", "i">>,
      XiaoShuai \o <<" ", "o", "k">>,
      <<" ", "\n">>,
      <<>> }

\* response.Choices[0].Delta.Content of a stream response, and the content
\* of a completion
Contents == { <<>>, <<"a">>, <<"b", "c">> }

\* a response is its Choices, each choice its content
Responses(contents) == {<<>>} \cup { <<c>> : c \in contents }

-----------------------------------------------------------------------------
(* The values the pipeline builds *)

\* protocol.NewMessage(protocol.MessageRoleAgent, []protocol.Part{NewTextPart(t)})
NewMessage(t) == [role |-> "agent", parts |-> <<TextPart(t)>>]

\* a variant that skips empty text parts
RECURSIVE extractTextNonEmpty(_)
extractTextNonEmpty(parts) ==
    IF parts = <<>> THEN <<>>
    ELSE IF Head(parts).kind = "text" /\ Head(parts).text # <<>> THEN Head(parts).text
    ELSE extractTextNonEmpty(Tail(parts))

\* extractText: the text of the first text part, "" when there is none
RECURSIVE extractText(_)
extractText(parts) ==
    IF parts = <<>> THEN <<>>
    ELSE IF Head(parts).kind = "text" THEN Head(parts).text
    ELSE extractText(Tail(parts))

\* a variant without the fallback
CoerceIntentKeep(trimmed) == trimmed

\* main.go:390-395: anything but the two labels becomes XiaoMei
CoerceIntent(trimmed) ==
    IF trimmed # XiaoMei /\ trimmed # XiaoShuai THEN XiaoMei ELSE trimmed

\* main.go:400 and 411: the voice update is attempted for long task ids only
VoiceIDThreshold == 64
\* a variant that lets a task id of the threshold length through
VoiceGateInclusive(id) == Len(id) >= VoiceIDThreshold

VoiceGate(id) == Len(id) > VoiceIDThreshold

VoiceTypeXiaoMei   == 601005
VoiceTypeXiaoShuai == 601008

\* main.go:398-420: which wrapper detectIntent calls, as the voice it sets
VoiceTypeOf(in) == IF in = XiaoMei THEN VoiceTypeXiaoMei ELSE VoiceTypeXiaoShuai

PromptXiaoMei   == <<"You are an AI assistant named XiaoMei">>
PromptXiaoShuai == <<"You are an AI assistant named XiaoShuai">>
IntentPrompt    == <<"You are an intent detection assistant">>

\* a variant whose map has no entry for XiaoShuai
getAssistantPromptOneKey(in) ==
    IF in = XiaoMei THEN PromptXiaoMei
    ELSE <<>>

\* getAssistantPrompt: prompts[intent], "" for a key the map lacks
getAssistantPrompt(in) ==
    IF in = XiaoMei THEN PromptXiaoMei
    ELSE IF in = XiaoShuai THEN PromptXiaoShuai
    ELSE <<>>

\* openai.ChatCompletionRequest: system message, user message, Stream
Request(system, user, stream) ==
    [system |-> system, user |-> user, stream |-> stream]

\* a variant that records the buffer length before the increment was written
ChunkArtifactStaleTotal(idx, content, total) ==
    [ name        |-> <<"Chunk ", ToString(idx + 1)>>,
      description |-> <<"Streaming chunk from OpenAI">>,
      index       |-> idx,
      parts       |-> <<TextPart(content)>>,
      append      |-> <<idx > 0>>,
      lastChunk   |-> <<>>,
      metadata    |-> [ chunk_size   |-> Len(content),
                        chunk_index  |-> idx,
                        total_length |-> total - Len(content),
                        is_streaming |-> TRUE ] ]

\* a variant that sets Append on every chunk
ChunkArtifactAlwaysAppend(idx, content, total) ==
    [ name        |-> <<"Chunk ", ToString(idx + 1)>>,
      description |-> <<"Streaming chunk from OpenAI">>,
      index       |-> idx,
      parts       |-> <<TextPart(content)>>,
      append      |-> <<TRUE>>,
      lastChunk   |-> <<>>,
      metadata    |-> [ chunk_size   |-> Len(content),
                        chunk_index  |-> idx,
                        total_length |-> total,
                        is_streaming |-> TRUE ] ]

\* main.go:172-186
ChunkArtifact(idx, content, total) ==
    [ name        |-> <<"Chunk ", ToString(idx + 1)>>,
      description |-> <<"Streaming chunk from OpenAI">>,
      index       |-> idx,
      parts       |-> <<TextPart(content)>>,
      append      |-> <<idx > 0>>,
      lastChunk   |-> <<>>,
      metadata    |-> [ chunk_size   |-> Len(content),
                        chunk_index  |-> idx,
                        total_length |-> total,
                        is_streaming |-> TRUE ] ]

\* a variant that gives the closing artifact an index of its own
LastChunkArtifactNextIndex(idx, total) ==
    [ name        |-> <<"Chunk ", ToString(idx)>>,
      description |-> <<"Final chunk from OpenAI">>,
      index       |-> idx,
      parts       |-> <<>>,
      append      |-> <<>>,
      lastChunk   |-> <<TRUE>>,
      metadata    |-> [ total_chunks  |-> idx,
                        total_length  |-> total,
                        is_streaming  |-> TRUE,
                        is_last_chunk |-> TRUE ] ]

\* main.go:196-210
LastChunkArtifact(idx, total) ==
    [ name        |-> <<"Chunk ", ToString(idx)>>,
      description |-> <<"Final chunk from OpenAI">>,
      index       |-> idx - 1,
      parts       |-> <<>>,
      append      |-> <<>>,
      lastChunk   |-> <<TRUE>>,
      metadata    |-> [ total_chunks  |-> idx,
                        total_length  |-> total,
                        is_streaming  |-> TRUE,
                        is_last_chunk |-> TRUE ] ]

\* a variant that leaves LastChunk unset
NonStreamingArtifactOpen(processedText) ==
    [ name        |-> <<"Processed Text">>,
      description |-> <<"Complete processed text from OpenAI">>,
      index       |-> 0,
      parts       |-> <<TextPart(processedText)>>,
      append      |-> <<>>,
      lastChunk   |-> <<>>,
      metadata    |-> [ total_length |-> Len(processedText),
                        is_streaming |-> FALSE ] ]

\* main.go:295-307
NonStreamingArtifact(processedText) ==
    [ name        |-> <<"Processed Text">>,
      description |-> <<"Complete processed text from OpenAI">>,
      index       |-> 0,
      parts       |-> <<TextPart(processedText)>>,
      append      |-> <<>>,
      lastChunk   |-> <<TRUE>>,
      metadata    |-> [ total_length |-> Len(processedText),
                        is_streaming |-> FALSE ] ]

-----------------------------------------------------------------------------
(* The calls on the collaborators, as log entries *)

\* handle.UpdateStatus(state, msg); msg is <<>> for nil; ok: it returned nil
UpdateStatus(state, msg, ok) ==
    [op |-> "UpdateStatus", state |-> state, msg |-> msg, ok |-> ok]

\* handle.AddArtifact(artifact)
AddArtifact(artifact, ok) ==
    [op |-> "AddArtifact", artifact |-> artifact, ok |-> ok]

\* openaiClient.CreateChatCompletion(ctx, req) returning choices or err
CreateChatCompletion(req, choices, err) ==
    [op |-> "CreateChatCompletion", req |-> req, choices |-> choices, err |-> err]

\* openaiClient.CreateChatCompletionStream(ctx, req)
CreateChatCompletionStream(req, err) ==
    [op |-> "CreateChatCompletionStream", req |-> req, err |-> err]

\* stream.Recv()
StreamRecv(choices, err) ==
    [op |-> "Recv", choices |-> choices, err |-> err]

\* UpdateAIConversationXiaoMei(taskID) / UpdateAIConversationXiaoShuai(taskID)
UpdateAIConversation(id, voiceType, outcome) ==
    [op |-> "UpdateAIConversation", taskID |-> id, voiceType |-> voiceType,
     outcome |-> outcome]

\* the error a failing TaskHandle call returns
ErrHandle == <<"task handle unavailable">>

-----------------------------------------------------------------------------
(* Process *)

Running == {"classify", "voice", "complete", "open", "check", "recv"}

Init ==
    /\ pc = "idle"
    /\ taskID = <<>>
    /\ message = <<>>
    /\ isStreaming = FALSE
    /\ text = <<>>
    /\ intent = <<>>
    /\ ctxErr = FALSE
    /\ chunkIndex = 0
    /\ fullResponse = 0
    /\ recvCount = 0
    /\ log = <<>>
    /\ ret = <<>>
    /\ trtcClientOnce = FALSE
    /\ trtcClient = "nil"

\* the TaskHandle calls of l that returned an error
HandleFailures(l) ==
    Cardinality({ i \in DOMAIN l :
                    l[i].op \in {"UpdateStatus", "AddArtifact"} /\ ~l[i].ok })

WithinBudget(l) == HandleFailures(l) <= MaxHandleFailures

\* Process returns r after making the calls in events
Return(events, r) ==
    /\ log' = log \o events
    /\ WithinBudget(log')
    /\ ret' = r
    /\ pc' = "done"

\* a variant whose message leaves the error out
FailedStatusNoCause(err, ok) ==
    UpdateStatus("failed", <<NewMessage(<<"Failed to process with OpenAI">>)>>, ok)

\* main.go:76-84 and 284-293: the generator returned err
FailedStatus(err, ok) ==
    UpdateStatus("failed",
                 <<NewMessage(Errorf("Failed to process with OpenAI: ", err))>>, ok)

ReturnFailed(events, err) ==
    \E ok \in BOOLEAN : Return(events \o <<FailedStatus(err, ok)>>, <<err>>)

\* main.go:216-227 and 313-325: the Completed update and what follows from
\* its result; in streaming mode Process handles the error as a generator error
ReturnCompleted(events, summary) ==
    \E ok \in BOOLEAN :
        LET done == events \o <<UpdateStatus("completed", <<NewMessage(summary)>>, ok)>>
            err  == Errorf("failed to update final task status", ErrHandle)
        IN  IF ok THEN Return(done, <<>>)
            ELSE IF isStreaming THEN ReturnFailed(done, err)
            ELSE Return(done, <<err>>)

\* main.go:36-74 and 275-282: Process up to the first model call
Begin ==
    /\ pc = "idle"
    /\ \E id \in TaskIDs, m \in Messages, streaming \in BOOLEAN, ok \in BOOLEAN :
         LET t == extractText(m)
             initial == IF streaming
                        THEN <<"Starting to process your streaming data with OpenAI...">>
                        ELSE <<"Processing your text with OpenAI...">>
         IN  /\ taskID' = id
             /\ message' = m
             /\ isStreaming' = streaming
             /\ text' = t
             /\ IF t = <<>>
                THEN /\ log' = <<UpdateStatus("failed",
                                   <<NewMessage(<<"input message must contain text">>)>>, ok)>>
                     /\ ret' = <<NewError("input message must contain text")>>
                     /\ pc' = "done"
                ELSE /\ log' = <<UpdateStatus("working", <<NewMessage(initial)>>, ok)>>
                     /\ ret' = IF ok THEN <<>> ELSE <<ErrHandle>>
                     /\ pc' = IF ok THEN "classify" ELSE "done"
    /\ intent' = <<>>
    /\ ctxErr' = FALSE
    /\ chunkIndex' = 0
    /\ fullResponse' = 0
    /\ recvCount' = 0
    /\ UNCHANGED <<trtcClientOnce, trtcClient>>

\* main.go:365-396 with 98-102 and 237-240: detectIntent's model call
Classify ==
    /\ pc = "classify"
    /\ LET req == Request(IntentPrompt, text, FALSE) IN
       \/ \E e \in CallErrors :
            /\ ReturnFailed(<<CreateChatCompletion(req, <<>>, e)>>,
                            Errorf("intent detection failed",
                                   Errorf("intent detection failed", e)))
            /\ UNCHANGED intent
       \/ \E choices \in Responses(ClassifierOutputs) :
            /\ log' = Append(log, CreateChatCompletion(req, choices, <<>>))
            /\ IF choices = <<>>
               THEN pc' = "panicked" /\ UNCHANGED intent
               ELSE /\ intent' = CoerceIntent(TrimSpace(choices[1]))
                    /\ pc' = IF VoiceGate(taskID) THEN "voice"
                             ELSE IF isStreaming THEN "open" ELSE "complete"
            /\ UNCHANGED ret
    /\ UNCHANGED <<taskID, message, isStreaming, text, ctxErr, chunkIndex,
                   fullResponse, recvCount, trtcClientOnce, trtcClient>>

\* main.go:398-420 with trtc_api.go:29-104: the voice update
VoiceOutcomes == {"ok", "API error", "update failed"}

Voice ==
    /\ pc = "voice"
    /\ \/ \* trtcClientOnce.Do builds the client, or the client exists
          /\ ~trtcClientOnce \/ trtcClient = "client"
          /\ trtcClientOnce' = TRUE
          /\ trtcClient' = "client"
          /\ \E o \in VoiceOutcomes :
               log' = Append(log, UpdateAIConversation(taskID, VoiceTypeOf(intent), o))
          /\ pc' = IF isStreaming THEN "open" ELSE "complete"
       \/ \* trtc.NewClient fails and Do panics, or Do has panicked before
          \* and the client is nil
          /\ ~trtcClientOnce \/ trtcClient = "nil"
          /\ trtcClientOnce' = TRUE
          /\ trtcClient' = "nil"
          /\ log' = Append(log, UpdateAIConversation(taskID, VoiceTypeOf(intent), "panic"))
          /\ pc' = "panicked"
    /\ UNCHANGED <<taskID, message, isStreaming, text, intent, ctxErr, chunkIndex,
                   fullResponse, recvCount, ret>>

\* a variant that returns empty content for a response without choices
CompletionResultLenient(choices) ==
    IF Len(choices) = 0
    THEN [content |-> <<>>, err |-> <<>>]
    ELSE [content |-> choices[1], err |-> <<>>]

\* main.go:261-265: what processWithOpenAINonStreaming returns for a response
CompletionResult(choices) ==
    IF Len(choices) = 0
    THEN [content |-> <<>>, err |-> NewError("no choices in OpenAI response")]
    ELSE [content |-> choices[1], err |-> <<>>]

\* main.go:242-266 and 284-326: the completion call and what follows it
Complete ==
    /\ pc = "complete"
    /\ LET req == Request(getAssistantPrompt(intent), text, FALSE) IN
       \/ \E e \in CallErrors :
            ReturnFailed(<<CreateChatCompletion(req, <<>>, e)>>,
                         Errorf("failed to create OpenAI request", e))
       \/ \E choices \in Responses(Contents) :
            LET call == CreateChatCompletion(req, choices, <<>>)
                res  == CompletionResult(choices)
            IN  IF res.err # <<>>
                THEN ReturnFailed(<<call>>, res.err)
                ELSE \E ok \in BOOLEAN :
                       ReturnCompleted(
                           <<call, AddArtifact(NonStreamingArtifact(res.content), ok)>>,
                           <<"Processing complete. OpenAI response received.">>)
    /\ UNCHANGED <<taskID, message, isStreaming, text, intent, ctxErr, chunkIndex,
                   fullResponse, recvCount, trtcClientOnce, trtcClient>>

\* main.go:106-130: the stream is opened
Open ==
    /\ pc = "open"
    /\ LET req == Request(getAssistantPrompt(intent), text, TRUE) IN
       \/ \E e \in CallErrors :
            ReturnFailed(<<CreateChatCompletionStream(req, e)>>,
                         Errorf("failed to create OpenAI streaming request", e))
       \/ /\ log' = Append(log, CreateChatCompletionStream(req, <<>>))
          /\ pc' = "check"
          /\ UNCHANGED ret
    /\ chunkIndex' = 0
    /\ fullResponse' = 0
    /\ UNCHANGED <<taskID, message, isStreaming, text, intent, ctxErr,
                   recvCount, trtcClientOnce, trtcClient>>

\* main.go:133-137: the cancellation check at the top of the loop
Check ==
    /\ pc = "check"
    /\ IF ctxErr
       THEN \E ok \in BOOLEAN :
              ReturnFailed(<<UpdateStatus("canceled", <<>>, ok)>>, ErrCanceled)
       ELSE pc' = "recv" /\ UNCHANGED <<log, ret>>
    /\ UNCHANGED <<taskID, message, isStreaming, text, intent, ctxErr, chunkIndex,
                   fullResponse, recvCount, trtcClientOnce, trtcClient>>

\* a variant that counts only the chunks whose append succeeded
NextChunkIndexIfAppended(idx, appended) == IF appended THEN idx + 1 ELSE idx

\* main.go:188-192: the error of AddArtifact is logged, then chunkIndex++
NextChunkIndex(idx, appended) == idx + 1

\* a variant that skips no increment
IsEmptyContentNever(content) == FALSE

\* main.go:148: content == ""
IsEmptyContent(content) == content = <<>>

\* main.go:139-193: one stream.Recv and the rest of the iteration
RecvError ==
    /\ pc = "recv"
    /\ \E e \in CallErrors :
         ReturnFailed(<<StreamRecv(<<>>, e)>>,
                      Errorf("failed to receive OpenAI streaming response", e))
    /\ recvCount' = recvCount + 1
    /\ UNCHANGED <<taskID, message, isStreaming, text, intent, ctxErr, chunkIndex,
                   fullResponse, trtcClientOnce, trtcClient>>

RecvContent ==
    /\ pc = "recv"
    /\ recvCount < MaxRecv
    /\ \E choices \in Responses(Contents) :
         LET call == StreamRecv(choices, <<>>) IN
         IF choices = <<>>
         THEN /\ log' = Append(log, call)
              /\ pc' = "panicked"
              /\ UNCHANGED <<chunkIndex, fullResponse>>
         ELSE IF IsEmptyContent(choices[1])
         THEN /\ log' = Append(log, call)
              /\ pc' = "check"
              /\ UNCHANGED <<chunkIndex, fullResponse>>
         ELSE \E okStatus \in BOOLEAN, okArtifact \in BOOLEAN :
                LET content == choices[1]
                    total   == fullResponse + Len(content)
                IN  /\ fullResponse' = total
                    /\ log' = log \o
                         << call,
                            UpdateStatus("working", <<NewMessage(content)>>, okStatus),
                            AddArtifact(ChunkArtifact(chunkIndex, content, total),
                                        okArtifact) >>
                    /\ WithinBudget(log')
                    /\ chunkIndex' = NextChunkIndex(chunkIndex, okArtifact)
                    /\ pc' = "check"
    /\ recvCount' = recvCount + 1
    /\ UNCHANGED <<taskID, message, isStreaming, text, intent, ctxErr, ret,
                   trtcClientOnce, trtcClient>>

\* main.go:141-143 and 195-227: io.EOF ends the loop
RecvEOF ==
    /\ pc = "recv"
    /\ LET call == StreamRecv(<<>>, EOF)
           summary == <<"Processing complete. Received ", ToString(chunkIndex), " chunks.">>
       IN  IF chunkIndex > 0
           THEN \E ok \in BOOLEAN :
                  ReturnCompleted(
                      <<call, AddArtifact(LastChunkArtifact(chunkIndex, fullResponse), ok)>>,
                      summary)
           ELSE ReturnCompleted(<<call>>, summary)
    /\ recvCount' = recvCount + 1
    /\ UNCHANGED <<taskID, message, isStreaming, text, intent, ctxErr, chunkIndex,
                   fullResponse, trtcClientOnce, trtcClient>>

\* the task runtime cancels ctx while Process runs
Cancel ==
    /\ pc \in Running
    /\ ~ctxErr
    /\ ctxErr' = TRUE
    /\ UNCHANGED <<pc, taskID, message, isStreaming, text, intent, chunkIndex,
                   fullResponse, recvCount, log, ret, trtcClientOnce, trtcClient>>

\* Process has returned; the task runtime is ready for the next task
Finish ==
    /\ pc = "done"
    /\ pc' = "idle"
    /\ taskID' = <<>>
    /\ message' = <<>>
    /\ isStreaming' = FALSE
    /\ text' = <<>>
    /\ intent' = <<>>
    /\ ctxErr' = FALSE
    /\ chunkIndex' = 0
    /\ fullResponse' = 0
    /\ recvCount' = 0
    /\ log' = <<>>
    /\ ret' = <<>>
    /\ UNCHANGED <<trtcClientOnce, trtcClient>>

Next ==
    \/ Begin
    \/ Classify
    \/ Voice
    \/ Complete
    \/ Open
    \/ Check
    \/ RecvError
    \/ RecvContent
    \/ RecvEOF
    \/ Cancel
    \/ Finish

Spec == Init /\ [][Next]_vars

-----------------------------------------------------------------------------
(* What a run did, read from log *)

StatusUpdates == SelectSeq(log, LAMBDA e : e.op = "UpdateStatus")
Artifacts     == SelectSeq(log, LAMBDA e : e.op = "AddArtifact")
VoiceCalls    == SelectSeq(log, LAMBDA e : e.op = "UpdateAIConversation")

IsModelCall(e) ==
    e.op \in {"CreateChatCompletion", "CreateChatCompletionStream", "Recv"}

ModelCalls == SelectSeq(log, IsModelCall)

\* the stream responses that carried non-empty content
Increments ==
    SelectSeq(log, LAMBDA e : /\ e.op = "Recv"
                              /\ e.err = <<>>
                              /\ e.choices # <<>>
                              /\ e.choices[1] # <<>>)

Issued(state) == \E i \in DOMAIN log : log[i].op = "UpdateStatus" /\ log[i].state = state

\* the message has no text part, or its first text part is empty
NoText(parts) ==
    LET texts == SelectSeq(parts, LAMBDA p : p.kind = "text")
    IN  texts = <<>> \/ texts[1].text = <<>>

ValidationMessage == <<NewMessage(<<"input message must contain text">>)>>

-----------------------------------------------------------------------------
(* Claims *)

\* C1: a message with no text part, or whose first text part is empty, never
\* gets past validation: the run makes exactly one TaskHandle call, the Failed
\* status update with the validation message, makes no model call, and
\* Process returns an error.
C1_EmptyTextFailsValidation ==
    (pc # "idle" /\ NoText(message)) =>
        /\ pc = "done"
        /\ Len(log) = 1
        /\ log[1].op = "UpdateStatus"
        /\ log[1].state = "failed"
        /\ log[1].msg = ValidationMessage
        /\ ret # <<>>

C1_Witness ==
    /\ pc = "done"
    /\ message = <<TextPart(<<>>), TextPart(Hello)>>
    /\ Len(log) = 1

\* C2: a streaming run that returned nil after N > 0 non-empty increments
\* made N+1 AddArtifact calls: content artifacts with index 0..N-1 in order,
\* Append false on the first and true on the others, no LastChunk, and then
\* one artifact with LastChunk true.
C2_StreamingArtifactSequence ==
    (pc = "done" /\ isStreaming /\ ret = <<>> /\ Len(Increments) > 0) =>
        LET n == Len(Increments) IN
        /\ Len(Artifacts) = n + 1
        /\ \A i \in 1..n :
              /\ Artifacts[i].artifact.index = i - 1
              /\ Artifacts[i].artifact.append = <<i > 1>>
              /\ Artifacts[i].artifact.lastChunk = <<>>
              /\ Artifacts[i].artifact.parts = <<TextPart(Increments[i].choices[1])>>
        /\ Artifacts[n + 1].artifact.lastChunk = <<TRUE>>

C2_Witness ==
    /\ pc = "done"
    /\ isStreaming
    /\ ret = <<>>
    /\ Len(Increments) = 2
    /\ Increments[1].choices # Increments[2].choices
    /\ Len(Artifacts) = 3

\* C3: once the loop's check has seen the cancellation and the Canceled
\* status update is issued, nothing follows it: no artifact, no stream receive
\* or other model call, and no Completed or Failed status update.
C3_CanceledIsFinal ==
    pc = "done" =>
        \A i \in DOMAIN log :
            (log[i].op = "UpdateStatus" /\ log[i].state = "canceled") =>
                \A j \in (i + 1)..Len(log) :
                    /\ log[j].op # "AddArtifact"
                    /\ ~IsModelCall(log[j])
                    /\ ~(log[j].op = "UpdateStatus"
                          /\ log[j].state \in {"completed", "failed"})

\* a validation, classification, generation or cancellation error occurred
TerminalErrorOccurred ==
    \/ NoText(message)
    \/ Issued("canceled")
    \/ \E i \in DOMAIN log :
          /\ IsModelCall(log[i])
          /\ \/ log[i].err \notin {<<>>, EOF}
             \/ /\ log[i].op = "CreateChatCompletion"
                /\ log[i].req.system # IntentPrompt
                /\ log[i].err = <<>>
                /\ log[i].choices = <<>>

\* C4: Process returns an error exactly when a validation, classification,
\* generation or cancellation error occurred, and only then is a Failed or
\* Canceled status update issued; a TaskHandle call that fails is only logged.
C4_OnlyTerminalErrorsPropagate ==
    pc = "done" =>
        /\ ret # <<>> <=> TerminalErrorOccurred
        /\ (Issued("failed") \/ Issued("canceled")) => TerminalErrorOccurred

\* C5: a streaming run whose stream ended without a non-empty increment
\* appended no artifact, issued the Completed status update and returned nil.
C5_EmptyStreamCompletes ==
    ( /\ pc = "done"
      /\ isStreaming
      /\ Len(Increments) = 0
      /\ \E i \in DOMAIN log : log[i].op = "Recv" /\ log[i].err = EOF ) =>
        /\ Artifacts = <<>>
        /\ Issued("completed")
        /\ ret = <<>>

\* the completion call of a non-streaming run returned at least one choice
CompletionReturned ==
    \E i \in DOMAIN log :
        /\ log[i].op = "CreateChatCompletion"
        /\ log[i].req.system # IntentPrompt
        /\ log[i].err = <<>>
        /\ log[i].choices # <<>>

\* C6 as stated: every non-streaming run with valid text appends exactly one
\* artifact, with LastChunk true and index 0 (here even for the runs in which
\* no TaskHandle call fails).
C6_Original ==
    (pc = "done" /\ ~isStreaming /\ ~NoText(message) /\ HandleFailures(log) = 0) =>
        /\ Len(Artifacts) = 1
        /\ Artifacts[1].artifact.lastChunk = <<TRUE>>
        /\ Artifacts[1].artifact.index = 0

\* C6 amended: a non-streaming run appends exactly one artifact, with
\* LastChunk true and index 0, if its completion call returned a choice, and
\* no artifact otherwise.
C6_NonStreamingArtifact ==
    (pc \in {"done", "panicked"} /\ ~isStreaming) =>
        IF CompletionReturned
        THEN /\ Len(Artifacts) = 1
             /\ Artifacts[1].artifact.lastChunk = <<TRUE>>
             /\ Artifacts[1].artifact.index = 0
        ELSE Artifacts = <<>>

C6_Witness ==
    /\ pc = "done"
    /\ ~isStreaming
    /\ CompletionReturned
    /\ Len(Artifacts) = 1
    /\ ret = <<>>

\* the classification calls of the run, and whether one returned a choice
Classifications ==
    SelectSeq(log, LAMBDA e : e.op = "CreateChatCompletion" /\ e.req.system = IntentPrompt)

Classified ==
    /\ Len(Classifications) = 1
    /\ Classifications[1].err = <<>>
    /\ Classifications[1].choices # <<>>

\* the generation requests of the run (completion or stream open)
GenerationCalls ==
    SelectSeq(log, LAMBDA e : \/ e.op = "CreateChatCompletionStream"
                              \/ e.op = "CreateChatCompletion" /\ e.req.system # IntentPrompt)

\* c is label with nothing but whitespace before and after it
IsPadded(c, label) ==
    \E i \in 1..(Len(c) + 1) :
        /\ i + Len(label) - 1 <= Len(c)
        /\ SubSeq(c, i, i + Len(label) - 1) = label
        /\ \A k \in 1..Len(c) :
              (k < i \/ k >= i + Len(label)) => c[k] \in Whitespace

\* C7: whatever content the classification call returns, detectIntent
\* returns one of the two labels and no error: the label the content is once
\* surrounding whitespace is dropped, XiaoMei for every other content; only
\* that label reaches the prompt of the generation request and the voice update.
C7_IntentIsCoerced ==
    Classified =>
        LET c    == Classifications[1].choices[1]
            want == IF IsPadded(c, XiaoShuai) THEN XiaoShuai ELSE XiaoMei
        IN  /\ intent = want
            /\ log[Len(log)] = Classifications[1] =>
                  pc \in {"voice", "open", "complete"} /\ ret = <<>>
            /\ \A i \in DOMAIN GenerationCalls :
                  GenerationCalls[i].req.system =
                      (IF want = XiaoMei THEN PromptXiaoMei ELSE PromptXiaoShuai)
            /\ \A i \in DOMAIN VoiceCalls :
                  VoiceCalls[i].voiceType =
                      (IF want = XiaoMei THEN VoiceTypeXiaoMei ELSE VoiceTypeXiaoShuai)

C7_Witness ==
    /\ Classified
    /\ Classifications[1].choices[1] = XiaoShuai \o <<" ", "o", "k">>
    /\ intent = XiaoMei
    /\ Len(VoiceCalls) = 1
    /\ Len(GenerationCalls) = 1

\* C8: after a classification that returned a choice the voice update is
\* called once if the task id is longer than 64 bytes and not at all
\* otherwise, with the task id of the run and the voice of the resolved
\* intent; without such a classification it is never called.
C8_VoiceGatedByTaskIDLength ==
    /\ Len(VoiceCalls) <= 1
    /\ ~Classified => VoiceCalls = <<>>
    /\ pc = "voice" => Classified /\ VoiceCalls = <<>> /\ Len(taskID) > 64
    /\ (Classified /\ pc # "voice") => (Len(VoiceCalls) = 1 <=> Len(taskID) > 64)
    /\ \A i \in DOMAIN VoiceCalls :
          /\ VoiceCalls[i].taskID = taskID
          /\ intent = XiaoMei => VoiceCalls[i].voiceType = VoiceTypeXiaoMei
          /\ intent = XiaoShuai => VoiceCalls[i].voiceType = VoiceTypeXiaoShuai

C8_Witness ==
    /\ pc = "complete"
    /\ Len(taskID) = 65
    /\ intent = XiaoShuai
    /\ Len(VoiceCalls) = 1
    /\ VoiceCalls[1].voiceType = VoiceTypeXiaoShuai

\* C9: however the voice update ends, detectIntent returns the intent it
\* resolved and no error, and Process goes on to the generation call.
C9_VoiceOutcomeIgnored ==
    [][(pc = "voice" /\ pc' # pc) =>
          /\ pc' = (IF isStreaming THEN "open" ELSE "complete")
          /\ intent' = intent
          /\ ret' = ret]_vars

\* the model call of the run that failed with an error other than io.EOF
FailedCalls == { i \in DOMAIN log : IsModelCall(log[i]) /\ log[i].err \notin {<<>>, EOF} }

\* s ends with e
EndsWith(s, e) == Len(e) <= Len(s) /\ SubSeq(s, Len(s) - Len(e) + 1, Len(s)) = e

\* C10: when the classification call, the completion or stream-open call or
\* a stream receive fails, the run ends with a Failed status update whose
\* message embeds the error, Process returns that error, no Completed update
\* and no LastChunk artifact is issued, nothing is appended after the failure,
\* and after a failed classification no generation call is made.
C10_BackendFailureFails ==
    \A i \in FailedCalls :
        /\ pc = "done"
        /\ Len(ret) = 1
        /\ EndsWith(ret[1], log[i].err)
        /\ log[Len(log)].op = "UpdateStatus"
        /\ log[Len(log)].state = "failed"
        /\ log[Len(log)].msg = <<NewMessage(<<"Failed to process with OpenAI: ">> \o ret[1])>>
        /\ ~Issued("completed")
        /\ \A j \in DOMAIN Artifacts : Artifacts[j].artifact.lastChunk # <<TRUE>>
        /\ \A j \in (i + 1)..Len(log) : log[j].op # "AddArtifact" /\ ~IsModelCall(log[j])
        /\ log[i].op = "CreateChatCompletion" /\ log[i].req.system = IntentPrompt =>
              GenerationCalls = <<>>

C10_Witness ==
    /\ pc = "done"
    /\ \E i \in FailedCalls : log[i].op = "Recv"
    /\ Len(Artifacts) = 2
    /\ Issued("failed")

\* the completion call of a non-streaming run returned a response without choices
CompletionWithoutChoices ==
    \E i \in DOMAIN log :
        /\ log[i].op = "CreateChatCompletion"
        /\ log[i].req.system # IntentPrompt
        /\ log[i].err = <<>>
        /\ log[i].choices = <<>>

\* C11: a completion response with zero choices ends the non-streaming run
\* as a generation error: no artifact, a Failed status update with a message
\* as the last call, no Completed update, and Process returns an error.
C11_NoChoicesIsGenerationError ==
    CompletionWithoutChoices =>
        /\ pc = "done"
        /\ ~isStreaming
        /\ Artifacts = <<>>
        /\ log[Len(log)].op = "UpdateStatus"
        /\ log[Len(log)].state = "failed"
        /\ log[Len(log)].msg # <<>>
        /\ log[Len(log)].msg[1].parts[1].text # <<>>
        /\ ~Issued("completed")
        /\ ret # <<>>

C11_Witness ==
    /\ pc = "done"
    /\ CompletionWithoutChoices
    /\ Len(log) = 4

\* C12: every Failed or Canceled status update carries an agent-authored
\* message with text; none is issued with a nil message.
C12_TerminalFailureHasMessage ==
    \A i \in DOMAIN log :
        (log[i].op = "UpdateStatus" /\ log[i].state \in {"failed", "canceled"}) =>
            /\ log[i].msg # <<>>
            /\ log[i].msg[1].role = "agent"
            /\ log[i].msg[1].parts[1].text # <<>>

\* the positions in log of the generation call and of the classification call
GenerationAt ==
    { i \in DOMAIN log :
        \/ log[i].op = "CreateChatCompletionStream"
        \/ log[i].op = "CreateChatCompletion" /\ log[i].req.system # IntentPrompt }

ClassificationAt ==
    { i \in DOMAIN log :
        log[i].op = "CreateChatCompletion" /\ log[i].req.system = IntentPrompt }

\* C13: a run with valid text issues the initial Working update first, then
\* makes exactly one classification call, then at most one generation call,
\* and that only after the classification returned a choice; no artifact is
\* appended before the generation call.
C13_SequentialSteps ==
    (pc \in {"done", "panicked"} /\ ~NoText(message)) =>
        /\ log[1].op = "UpdateStatus"
        /\ log[1].state = "working"
        /\ Cardinality(ClassificationAt) = 1
        /\ Cardinality(GenerationAt) <= 1
        /\ \A g \in GenerationAt :
              /\ Classified
              /\ \A c \in ClassificationAt : 1 < c /\ c < g
        /\ \A j \in DOMAIN log :
              log[j].op = "AddArtifact" => \E g \in GenerationAt : g < j

-----------------------------------------------------------------------------
(* Concurrent tasks at the voice update                                    *)
(*                                                                         *)
(* The task runtime runs Process for each task in a goroutine of its own.  *)
(* This specification follows NumTasks of them from the end of             *)
(* detectIntent's classification through getTRTCClient and                 *)
(* UpdateAIConversation: pc, taskID and intent are functions of the task.  *)
(* trtcClientOnce.Do runs its function under the Once's mutex, so a task   *)
(* at inDo keeps every other caller of Do waiting; when the function       *)
(* panics Do still marks the Once done and unlocks.  An unrecovered panic  *)
(* ends the process once the goroutine has unwound.                        *)
(***************************************************************************)

\* goroutines running Process at the same time
NumTasks == 2

Tasks == 1..NumTasks

\* the rest of Process is not followed here
PipelineIdle ==
    /\ message = <<>>
    /\ isStreaming = FALSE
    /\ text = <<>>
    /\ ctxErr = FALSE
    /\ chunkIndex = 0
    /\ fullResponse = 0
    /\ recvCount = 0
    /\ ret = <<>>

PipelineUnchanged ==
    UNCHANGED <<message, isStreaming, text, ctxErr, chunkIndex, fullResponse,
                recvCount, ret>>

\* trtc.NewClient(credential, region, cpf) in task t
NewClient(t, ok) == [op |-> "NewClient", task |-> t, ok |-> ok]

\* what getTRTCClient() returned to task t
GetTRTCClient(t, client) == [op |-> "getTRTCClient", task |-> t, client |-> client]

TasksInit ==
    /\ pc = [t \in Tasks |-> "detect"]
    /\ taskID \in [Tasks -> TaskIDs]
    /\ intent \in [Tasks -> {XiaoMei, XiaoShuai}]
    /\ log = <<>>
    /\ trtcClientOnce = FALSE
    /\ trtcClient = "nil"
    /\ PipelineIdle

\* main.go:398-420: the length gate in front of the voice update
TaskGate(t) ==
    /\ pc[t] = "detect"
    /\ pc' = [pc EXCEPT ![t] = IF VoiceGate(taskID[t]) THEN "getClient" ELSE "generate"]
    /\ UNCHANGED <<taskID, intent, log, trtcClientOnce, trtcClient>>
    /\ PipelineUnchanged

\* trtc_api.go:30: trtcClientOnce.Do: return if done, else run the function
\* once no other task is running it
TaskOnceDo(t) ==
    /\ pc[t] = "getClient"
    /\ IF trtcClientOnce
       THEN pc' = [pc EXCEPT ![t] = "request"]
       ELSE /\ \A u \in Tasks : pc[u] # "inDo"
            /\ pc' = [pc EXCEPT ![t] = "inDo"]
    /\ UNCHANGED <<taskID, intent, log, trtcClientOnce, trtcClient>>
    /\ PipelineUnchanged

\* trtc_api.go:31-49: the function passed to Do
TaskNewClient(t) ==
    /\ pc[t] = "inDo"
    /\ \E ok \in BOOLEAN :
         /\ log' = Append(log, NewClient(t, ok))
         /\ trtcClient' = IF ok THEN "client" ELSE trtcClient
         /\ pc' = [pc EXCEPT ![t] = IF ok THEN "request" ELSE "panicking"]
    /\ trtcClientOnce' = TRUE
    /\ UNCHANGED <<taskID, intent>>
    /\ PipelineUnchanged

\* trtc_api.go:50 and 59-67: getTRTCClient returns trtcClient and the request
\* is sent through it; a method call on the nil client panics
TaskRequest(t) ==
    /\ pc[t] = "request"
    /\ IF trtcClient = "client"
       THEN /\ \E o \in VoiceOutcomes :
                 log' = log \o << GetTRTCClient(t, trtcClient),
                                  UpdateAIConversation(taskID[t], VoiceTypeOf(intent[t]), o) >>
            /\ pc' = [pc EXCEPT ![t] = "generate"]
       ELSE /\ log' = Append(log, GetTRTCClient(t, trtcClient))
            /\ pc' = [pc EXCEPT ![t] = "panicking"]
    /\ UNCHANGED <<taskID, intent, trtcClientOnce, trtcClient>>
    /\ PipelineUnchanged

\* the panic of a task has unwound its goroutine: the process exits
TaskCrash ==
    /\ \E t \in Tasks : pc[t] = "panicking"
    /\ pc' = [t \in Tasks |-> "dead"]
    /\ UNCHANGED <<taskID, intent, log, trtcClientOnce, trtcClient>>
    /\ PipelineUnchanged

TasksNext ==
    \/ \E t \in Tasks : TaskGate(t)
    \/ \E t \in Tasks : TaskOnceDo(t)
    \/ \E t \in Tasks : TaskNewClient(t)
    \/ \E t \in Tasks : TaskRequest(t)
    \/ TaskCrash

SpecTasks == TasksInit /\ [][TasksNext]_vars

\* C14: with tasks running concurrently the voice client is constructed at
\* most once, only when a task with an id longer than 64 bytes needs it, and
\* every caller of getTRTCClient gets the constructed client.
C14_ClientConstructedOnce ==
    LET built == { i \in DOMAIN log : log[i].op = "NewClient" }
        got   == { i \in DOMAIN log : log[i].op = "getTRTCClient" }
    IN  /\ Cardinality(built) <= 1
        /\ built # {} => \E t \in Tasks : Len(taskID[t]) > 64
        /\ \A i \in got : log[i].client = "client"

-----------------------------------------------------------------------------

\* positions of the TaskHandle calls of the run
HandleCallAt == { i \in DOMAIN log : log[i].op \in {"UpdateStatus", "AddArtifact"} }

\* positions of the status updates to Completed, Failed or Canceled
TerminalAt ==
    { i \in DOMAIN log : /\ log[i].op = "UpdateStatus"
                          /\ log[i].state \in {"completed", "failed", "canceled"} }

\* C15: a returned Process has issued exactly one terminal status update, no
\* TaskHandle call follows it, and nil is returned exactly when it is Completed.
C15_OneTerminalUpdateLast ==
    pc = "done" =>
        /\ Cardinality(TerminalAt) = 1
        /\ \A i \in TerminalAt :
              /\ \A j \in HandleCallAt : j <= i
              /\ (ret = <<>>) <=> (log[i].state = "completed")

\* stream.Recv returned because ctx was canceled while it was blocked
CanceledInReceive ==
    \E i \in DOMAIN log : log[i].op = "Recv" /\ log[i].err = ErrCanceled

\* C16: a cancellation that arrives while the loop is blocked in stream.Recv,
\* after the check of that iteration, ends the task Canceled and never Failed.
C16_CancelDuringReceiveEndsCanceled ==
    (pc = "done" /\ CanceledInReceive) =>
        /\ Issued("canceled")
        /\ ~Issued("failed")

\* positions of the stream responses that carried a choice
ReceivedAt ==
    { i \in DOMAIN log : log[i].op = "Recv" /\ log[i].err = <<>> /\ log[i].choices # <<>> }

\* the number of non-empty increments received before position i
IncrementsBefore(i) ==
    Cardinality({ j \in ReceivedAt : j < i /\ log[j].choices[1] # <<>> })

\* the Working updates and the content artifacts of the streaming loop
ProgressUpdates ==
    SelectSeq(log, LAMBDA e : e.op = "UpdateStatus" /\ e.state = "working")

ContentArtifacts ==
    SelectSeq(log, LAMBDA e : e.op = "AddArtifact" /\ e.artifact.parts # <<>>)

\* C17: in the streaming loop each non-empty increment is followed at once by
\* one Working update carrying it and then one content artifact carrying it;
\* an empty increment is followed by neither and leaves the chunk index alone.
C17_IncrementEmitsStatusThenArtifact ==
    isStreaming =>
        /\ \A i \in ReceivedAt :
              LET content == log[i].choices[1] IN
              IF content # <<>>
              THEN /\ i + 2 <= Len(log)
                   /\ log[i + 1].op = "UpdateStatus"
                   /\ log[i + 1].state = "working"
                   /\ log[i + 1].msg = <<NewMessage(content)>>
                   /\ log[i + 2].op = "AddArtifact"
                   /\ log[i + 2].artifact.parts = <<TextPart(content)>>
                   /\ log[i + 2].artifact.index = IncrementsBefore(i)
              ELSE i < Len(log) =>
                     \/ log[i + 1].op = "Recv"
                     \/ log[i + 1].op = "UpdateStatus" /\ log[i + 1].state = "canceled"
        /\ Len(ProgressUpdates) <= 1 + Len(Increments)
        /\ Len(ContentArtifacts) = Len(Increments)
        /\ pc \in {"check", "recv"} => chunkIndex = Len(Increments)

\* a non-empty increment with its update and artifact, then an empty one
C17_Witness ==
    /\ isStreaming
    /\ pc = "check"
    /\ Len(Increments) = 1
    /\ Len(ContentArtifacts) = 1
    /\ chunkIndex = 1
    /\ \E i \in ReceivedAt : /\ log[i].choices[1] = <<>>
                              /\ IncrementsBefore(i) = 1

\* positions of the artifact appends, and of those with LastChunk set
ArtifactAt == { i \in DOMAIN log : log[i].op = "AddArtifact" }

ClosingAt == { i \in ArtifactAt : log[i].artifact.lastChunk = <<TRUE>> }

\* the stream ended with io.EOF
StreamEnded == \E i \in DOMAIN log : log[i].op = "Recv" /\ log[i].err = EOF

\* C18: a streaming run that ends normally after N>0 increments appends one
\* closing artifact after the N content artifacts and before the Completed
\* update, with no parts, lastChunk true and index N-1; in every run at most
\* one artifact has lastChunk, no content artifact of the stream has it, and
\* artifact indices never decrease in emission order.
C18_ClosingArtifact ==
    /\ (isStreaming /\ StreamEnded /\ Len(Increments) > 0) =>
          /\ Cardinality(ClosingAt) = 1
          /\ \A c \in ClosingAt :
                /\ log[c].artifact.parts = <<>>
                /\ log[c].artifact.index = Len(Increments) - 1
                /\ Cardinality({ i \in ArtifactAt : i < c }) = Len(Increments)
                /\ \A i \in ArtifactAt : i <= c
                /\ \E u \in DOMAIN log : /\ u > c
                                          /\ log[u].op = "UpdateStatus"
                                          /\ log[u].state = "completed"
                /\ \A u \in DOMAIN log :
                      (log[u].op = "UpdateStatus" /\ log[u].state = "completed") => u > c
    /\ Cardinality(ClosingAt) <= 1
    /\ isStreaming => \A i \in ArtifactAt :
                         log[i].artifact.parts # <<>> => log[i].artifact.lastChunk = <<>>
    /\ \A i, j \in ArtifactAt :
          i < j => log[i].artifact.index <= log[j].artifact.index

\* two increments, then the closing artifact with the index of the second
C18_Witness ==
    /\ isStreaming
    /\ pc = "done"
    /\ Len(Increments) = 2
    /\ \E c \in ClosingAt : log[c].artifact.index = 1 /\ log[c].ok
    /\ ret = <<>>

\* the byte length of the first n non-empty increments together
RECURSIVE IncrementsLength(_)
IncrementsLength(n) ==
    IF n = 0 THEN 0
    ELSE IncrementsLength(n - 1) + Len(Increments[n].choices[1])

\* C19: in a streaming run the content artifact with index i records the
\* length of increment i as chunk_size, i as chunk_index and the length of the
\* first i+1 increments as total_length, which therefore never decreases;
\* the closing artifact records the length of all N increments and N chunks.
C19_LengthAccounting ==
    isStreaming =>
        /\ \A k \in DOMAIN ContentArtifacts :
              LET a == ContentArtifacts[k].artifact IN
              /\ k <= Len(Increments)
              /\ a.index = k - 1
              /\ a.metadata.chunk_index = a.index
              /\ a.metadata.chunk_size = Len(Increments[k].choices[1])
              /\ a.metadata.total_length = IncrementsLength(k)
              /\ k > 1 => ContentArtifacts[k - 1].artifact.metadata.total_length
                              <= a.metadata.total_length
        /\ \A c \in ClosingAt :
              /\ log[c].artifact.metadata.total_length = IncrementsLength(Len(Increments))
              /\ log[c].artifact.metadata.total_chunks = Len(Increments)
        /\ pc \in {"check", "recv"} => fullResponse = IncrementsLength(Len(Increments))

\* increments of one and of two bytes, closed with total_length 3
C19_Witness ==
    /\ isStreaming
    /\ Len(ContentArtifacts) = 2
    /\ ContentArtifacts[1].artifact.metadata.total_length = 1
    /\ ContentArtifacts[2].artifact.metadata.chunk_size = 2
    /\ \E c \in ClosingAt : log[c].artifact.metadata.total_length = 3

\* the text parts of the incoming message
TextParts == SelectSeq(message, LAMBDA p : p.kind = "text")

\* C20: in both modes the generation request carries the registry prompt of
\* the intent detectIntent returned, which is one of the two labels, so the
\* system prompt is never empty; its user message is the extracted text.
C20_PromptOfResolvedIntent ==
    \A g \in GenerationAt :
        /\ intent \in {XiaoMei, XiaoShuai}
        /\ intent = XiaoMei => log[g].req.system = PromptXiaoMei
        /\ intent = XiaoShuai => log[g].req.system = PromptXiaoShuai
        /\ log[g].req.system # <<>>
        /\ log[g].req.user = TextParts[1].text
        /\ log[g].req.stream = isStreaming
        /\ log[g].op = (IF isStreaming THEN "CreateChatCompletionStream"
                        ELSE "CreateChatCompletion")

\* a non-streaming generation request sent with the XiaoShuai prompt
C20_Witness ==
    /\ ~isStreaming
    /\ intent = XiaoShuai
    /\ \E g \in GenerationAt : /\ log[g].req.system = PromptXiaoShuai
                                /\ log[g].req.user = Hello
                                /\ log[g].err = <<>>

\* positions of non-empty increments whose progress update or append failed
FailedEmissionAt ==
    { i \in ReceivedAt : /\ log[i].choices[1] # <<>>
                          /\ i + 2 <= Len(log)
                          /\ (~log[i + 1].ok \/ ~log[i + 2].ok) }

\* C21: in the streaming loop a failed progress update or a failed artifact
\* append changes nothing that follows: the artifact of the increment is still
\* attempted, the chunk index advances, the next content artifact has the next
\* index with append set, and the closing artifact and the completion message
\* count every non-empty increment received.
C21_LoopIgnoresHandleFailures ==
    (isStreaming /\ FailedEmissionAt # {}) =>
        /\ \A i \in FailedEmissionAt :
              /\ log[i + 2].op = "AddArtifact"
              /\ log[i + 2].artifact.parts = <<TextPart(log[i].choices[1])>>
              /\ log[i + 2].artifact.index = IncrementsBefore(i)
              /\ \A j \in ReceivedAt :
                    (j > i /\ log[j].choices[1] # <<>>) =>
                        /\ log[j + 2].op = "AddArtifact"
                        /\ log[j + 2].artifact.index = IncrementsBefore(j)
                        /\ log[j + 2].artifact.index > log[i + 2].artifact.index
                        /\ log[j + 2].artifact.append = <<TRUE>>
        /\ pc \in {"check", "recv"} => chunkIndex = Len(Increments)
        /\ \A c \in ClosingAt :
              /\ log[c].artifact.index = Len(Increments) - 1
              /\ log[c].artifact.metadata.total_chunks = Len(Increments)
        /\ \A u \in DOMAIN log :
              (log[u].op = "UpdateStatus" /\ log[u].state = "completed") =>
                  log[u].msg = <<NewMessage(<<"Processing complete. Received ",
                                             ToString(Len(Increments)), " chunks.">>)>>

\* the append of the first increment failed; the second has index 1 and the
\* run completes counting two chunks
C21_Witness ==
    /\ isStreaming
    /\ pc = "done"
    /\ ret = <<>>
    /\ Len(Increments) = 2
    /\ Len(ContentArtifacts) = 2
    /\ ~ContentArtifacts[1].ok
    /\ ContentArtifacts[2].artifact.index = 1
    /\ \E c \in ClosingAt : log[c].artifact.metadata.total_chunks = 2
    /\ Issued("completed")

\* Choices[0] was evaluated on a response without choices: an index out of
\* range panic, in detectIntent or in the streaming loop
IndexedEmptyChoices ==
    /\ pc = "panicked"
    /\ log # <<>>
    /\ log[Len(log)].op \in {"CreateChatCompletion", "Recv"}
    /\ log[Len(log)].err = <<>>
    /\ log[Len(log)].choices = <<>>

\* C22: Process never ends abnormally: whatever the backend responds, a
\* classification response or a stream increment without choices included,
\* no state indexes the first choice of an empty choices list.
C22_NeverIndexesEmptyChoices == ~IndexedEmptyChoices

-----------------------------------------------------------------------------
(* Termination                                                             *)
(*                                                                         *)
(* The goroutine that runs Process keeps being scheduled and every call    *)
(* it makes returns, so a step of Process that is possible is eventually   *)
(* taken.  Nothing is assumed of the task runtime: it may cancel or not,   *)
(* and it may hand over a next task or not.                                *)
(***************************************************************************)

\* a step of Process from a position inside it
Step ==
    \/ Classify
    \/ Voice
    \/ Complete
    \/ Open
    \/ Check
    \/ RecvError
    \/ RecvContent
    \/ RecvEOF

FairSpec == Spec /\ WF_vars(Step)

\* C23: when every backend call returns and the stream delivers finitely
\* many increments, every execution of Process eventually returns and the
\* task then holds a terminal status.
C23_ProcessEventuallyReturns ==
    (pc \in Running) ~> (pc = "done" /\ TerminalAt # {})

=============================================================================
